---- MODULE Spec2Model ----
(***************************************************************************)
(* Model of the Gaussian-channel alerting code.                            *)
(*                                                                         *)
(*   BandCrossDetector (src/indicators/band_detector.py): the per-symbol   *)
(*   crossing state, its JSON state file, detect_30m_cross,                *)
(*   detect_4h_cross and reset_coin_state.                                 *)
(*   GaussianChannel (src/indicators/gaussian_channel.py and               *)
(*   src/gaussian_channel.py): the parameter handling, the filter, its     *)
(*   weights and calculate, in the two channel implementations.            *)
(*   Gaussian30m (src/test_gc_30m.py): a run over the coins.               *)
(*   AlertStateManager (src/alert_state.py).                               *)
(*   fetch_ohlcv_with_fallback (src/simple_exchange.py).                   *)
(*   run_analysis (src/analysis.py).                                       *)
(***************************************************************************)
EXTENDS Integers, Sequences, FiniteSets, TLC

VARIABLES
    state,      \* BandCrossDetector.state: symbol -> record, in memory
    file,       \* content of BandCrossDetector.state_file on disk
    ret,        \* the last operation: its arguments and what it returned
    lastAlert,  \* history: kind of the last alert detect_30m_cross determined, per symbol
    gc,         \* the last GaussianChannel construction or calculation
    run,        \* the Gaussian30m run in progress, and what it has delivered
    asm         \* the AlertStateManager: its state, its file, its last call

vars == <<state, file, ret, lastAlert, gc, run, asm>>

(***************************************************************************)
(* Bounds of the model.                                                    *)
(***************************************************************************)
MaxTs == 2          \* candle timestamps are 1..MaxTs
MaxAlerts == 2      \* detector calls stop once a symbol's alert_count is MaxAlerts
MaxPolesArg == 11   \* requested pole counts are 0..MaxPolesArg
MaxPeriodArg == 4   \* requested periods are 0..MaxPeriodArg

Symbols == {"BTC", "ETH"}
Timestamps == 1..MaxTs

Max(a, b) == IF a >= b THEN a ELSE b
Min(a, b) == IF a <= b THEN a ELSE b

(***************************************************************************)
(* Python floats: finite values, nan, +inf, -inf, and the object None.     *)
(***************************************************************************)
Fin(n) == [kind |-> "fin", val |-> n]
NaN == [kind |-> "nan", val |-> 0]
PosInf == [kind |-> "inf", val |-> 1]
NegInf == [kind |-> "inf", val |-> -1]
None == [kind |-> "none", val |-> 0]

IsFinite(a) == a.kind = "fin"

\* Python's a > b on two floats (IEEE 754: every comparison with nan is False).
float_gt(a, b) ==
    CASE a.kind = "nan" \/ b.kind = "nan" -> FALSE
      [] a.kind = "inf" /\ b.kind = "inf" -> a.val > b.val
      [] a.kind = "inf" /\ b.kind = "fin" -> a.val > 0
      [] a.kind = "fin" /\ b.kind = "inf" -> b.val < 0
      [] OTHER -> a.val > b.val

\* Python's a <= b on two floats.
float_le(a, b) ==
    CASE a.kind = "nan" \/ b.kind = "nan" -> FALSE
      [] a.kind = "inf" /\ b.kind = "inf" -> a.val <= b.val
      [] a.kind = "inf" /\ b.kind = "fin" -> a.val < 0
      [] a.kind = "fin" /\ b.kind = "inf" -> b.val > 0
      [] OTHER -> a.val <= b.val

(***************************************************************************)
(* The state mapping and the state file.                                   *)
(***************************************************************************)
NoTimestamp == 0    \* 'last_timestamp': None

\* The record _get_coin_state creates for a symbol it has not seen.
NewCoinState ==
    [last_position |-> "unknown", last_timestamp |-> NoTimestamp, alert_count |-> 0]

\* What reading a symbol that has no record shows.
NoRecord ==
    [last_position |-> "absent", last_timestamp |-> NoTimestamp, alert_count |-> 0]

EmptyState == [s \in {} |-> NewCoinState]

RecordOf(st, symbol) == IF symbol \in DOMAIN st THEN st[symbol] ELSE NoRecord

\* The last_position a call would read: a symbol without a record is read as
\* 'unknown'.
KnownPosition(record) ==
    IF record.last_position = "absent" THEN "unknown" ELSE record.last_position

\* _get_coin_state with a new record that starts at 'inside' instead of 'unknown'.
_get_coin_state_inside(st, symbol) ==
    IF symbol \in DOMAIN st
    THEN st
    ELSE [s \in DOMAIN st \cup {symbol} |->
             IF s = symbol THEN [NewCoinState EXCEPT !.last_position = "inside"]
             ELSE st[s]]

\* self.state after _get_coin_state(symbol).
_get_coin_state(st, symbol) ==
    IF symbol \in DOMAIN st
    THEN st
    ELSE [s \in DOMAIN st \cup {symbol} |-> IF s = symbol THEN NewCoinState ELSE st[s]]

\* The file: a JSON object (status "ok"), no file (status "missing"), or a
\* file cut short by a failed write (status "corrupt").
FileOf(st) == [status |-> "ok", data |-> st]
MissingFile == [status |-> "missing", data |-> EmptyState]
CorruptFile == [status |-> "corrupt", data |-> EmptyState]

\* How a write of the state file can end: "ok"; "fail", makedirs or open raises
\* and the file is as before; "partial", the write raises after open truncated
\* the file.
SaveOutcomes == {"ok", "fail", "partial"}

\* _save_state that leaves the file as it is.
_save_state_skip(f, st, io) == f

\* The file after _save_state() with self.state = st.
_save_state(f, st, io) ==
    CASE io = "ok" -> FileOf(st)
      [] io = "fail" -> f
      [] OTHER -> CorruptFile

\* _load_state that reads nothing.
_load_state_empty(f) == EmptyState

\* _load_state(): the mapping read from the file, {} if there is none or if
\* json.load raises.
_load_state(f) == IF f.status = "ok" THEN f.data ELSE EmptyState

(***************************************************************************)
(* detect_30m_cross.                                                       *)
(***************************************************************************)
NoAlert == [type |-> "None"]      \* the return value None

\* current_position that takes the body to be above the upper band as soon
\* as a part of it is, and below the lower band likewise.
current_position_part(open_price, close_price, upper_band, lower_band) ==
    LET body_high == Max(open_price, close_price)
        body_low == Min(open_price, close_price)
    IN  IF upper_band = None THEN "TypeError"
        ELSE IF float_gt(Fin(body_high), upper_band) THEN "above_upper"
        ELSE IF lower_band = None THEN "TypeError"
        ELSE IF float_gt(lower_band, Fin(body_low)) THEN "below_lower"
        ELSE "inside"

\* Lines 76-88: the position of the candle body relative to the bands.
\* "TypeError" is the exception Python raises when a comparison meets None;
\* the elif is only evaluated when the if is False.
current_position(open_price, close_price, upper_band, lower_band) ==
    LET body_high == Max(open_price, close_price)
        body_low == Min(open_price, close_price)
    IN  IF upper_band = None THEN "TypeError"
        ELSE IF float_gt(Fin(body_low), upper_band) THEN "above_upper"
        ELSE IF lower_band = None THEN "TypeError"
        ELSE IF float_gt(lower_band, Fin(body_high)) THEN "below_lower"
        ELSE "inside"

\* The fields of a detect_30m_cross alert.
Alert30m(symbol, type, cross_direction, direction, open_price, close_price, high_price, low_price, upper_band, lower_band, timestamp) ==
    [symbol |-> symbol, type |-> type,
     cross_direction |-> cross_direction, cross_method |-> "BODY",
     timestamp |-> timestamp, open |-> open_price, high |-> high_price,
     low |-> low_price, close |-> close_price,
     upper_band |-> upper_band, lower_band |-> lower_band,
     direction |-> direction]

\* cross_alert that also alerts when the body jumps from one side of the
\* channel to the other.
cross_alert_jump(symbol, last_position, position, open_price, close_price, high_price, low_price, upper_band, lower_band, timestamp) ==
    LET mk(type, cross_direction, direction) ==
            Alert30m(symbol, type, cross_direction, direction, open_price,
                     close_price, high_price, low_price, upper_band,
                     lower_band, timestamp)
    IN  IF last_position # position /\ last_position # "unknown"
        THEN CASE position = "inside" /\ last_position = "above_upper"
                    -> mk("UPPER_BAND", "FROM_ABOVE", "BEARISH")
               [] position = "above_upper"
                    -> mk("UPPER_BAND", "FROM_BELOW", "BULLISH")
               [] position = "below_lower"
                    -> mk("LOWER_BAND", "FROM_ABOVE", "BEARISH")
               [] OTHER
                    -> mk("LOWER_BAND", "FROM_BELOW", "BULLISH")
        ELSE NoAlert

\* cross_alert whose alerts carry the candle's open as their close.
cross_alert_open(symbol, last_position, position, open_price, close_price, high_price, low_price, upper_band, lower_band, timestamp) ==
    LET mk(type, cross_direction, direction) ==
            Alert30m(symbol, type, cross_direction, direction, open_price,
                     open_price, high_price, low_price, upper_band,
                     lower_band, timestamp)
    IN  IF last_position # position /\ last_position # "unknown"
        THEN CASE last_position = "above_upper" /\ position = "inside"
                    -> mk("UPPER_BAND", "FROM_ABOVE", "BEARISH")
               [] last_position = "inside" /\ position = "above_upper"
                    -> mk("UPPER_BAND", "FROM_BELOW", "BULLISH")
               [] last_position = "inside" /\ position = "below_lower"
                    -> mk("LOWER_BAND", "FROM_ABOVE", "BEARISH")
               [] last_position = "below_lower" /\ position = "inside"
                    -> mk("LOWER_BAND", "FROM_BELOW", "BULLISH")
               [] OTHER -> NoAlert
        ELSE NoAlert

\* Lines 94-171: the alert for a change from last_position to current_position.
cross_alert(symbol, last_position, position, open_price, close_price, high_price, low_price, upper_band, lower_band, timestamp) ==
    LET mk(type, cross_direction, direction) ==
            Alert30m(symbol, type, cross_direction, direction, open_price,
                     close_price, high_price, low_price, upper_band,
                     lower_band, timestamp)
    IN  IF last_position # position /\ last_position # "unknown"
        THEN CASE last_position = "above_upper" /\ position = "inside"
                    -> mk("UPPER_BAND", "FROM_ABOVE", "BEARISH")
               [] last_position = "inside" /\ position = "above_upper"
                    -> mk("UPPER_BAND", "FROM_BELOW", "BULLISH")
               [] last_position = "inside" /\ position = "below_lower"
                    -> mk("LOWER_BAND", "FROM_ABOVE", "BEARISH")
               [] last_position = "below_lower" /\ position = "inside"
                    -> mk("LOWER_BAND", "FROM_BELOW", "BULLISH")
               [] OTHER -> NoAlert
        ELSE NoAlert

\* update_coin_state that counts every change of a known position, whether
\* or not it made an alert.
update_coin_state_changes(coin_state, position, timestamp, alert) ==
    [last_position |-> position,
     last_timestamp |-> timestamp,
     alert_count |-> IF coin_state.last_position \notin {position, "unknown"}
                     THEN coin_state.alert_count + 1
                     ELSE coin_state.alert_count]

\* update_coin_state that leaves last_position as it was when an alert fires.
update_coin_state_stale(coin_state, position, timestamp, alert) ==
    [last_position |-> IF alert # NoAlert THEN coin_state.last_position
                       ELSE position,
     last_timestamp |-> timestamp,
     alert_count |-> IF alert # NoAlert THEN coin_state.alert_count + 1
                     ELSE coin_state.alert_count]

\* Lines 173-178: the record after the call.
update_coin_state(coin_state, position, timestamp, alert) ==
    [last_position |-> position,
     last_timestamp |-> timestamp,
     alert_count |-> IF alert # NoAlert THEN coin_state.alert_count + 1
                     ELSE coin_state.alert_count]

\* History: the kind of an alert, and no alert yet.
NoKind == [type |-> "None", cross_direction |-> "None"]
KindOf(alert) == [type |-> alert.type, cross_direction |-> alert.cross_direction]

\* The arguments of a detector call, as ret records them.
CallArgs(op, symbol, open_price, close_price, high_price, low_price, filter_line, upper_band, lower_band, timestamp) ==
    [op |-> op, symbol |-> symbol, open |-> open_price, close |-> close_price,
     high |-> high_price, low |-> low_price, filter |-> filter_line,
     upper_band |-> upper_band, lower_band |-> lower_band,
     timestamp |-> timestamp]

\* ret for a detector call:
\*   args        the arguments
\*   pre         the symbol's record before the call (NoRecord if it had none)
\*   position    the classification detect_30m_cross computed ("n/a" in detect_4h_cross)
\*   side        where the candle body lies relative to the bands
\*   raised      the exception that ended the call, "" for a normal return
\*   determined  the alert the call built, whether or not it got to return it
\*   alert       the alert returned
\*   prevKind    the kind of the alert detect_30m_cross determined last before
\*   replay      the call repeats the arguments of the call just before it,
\*               and that call returned an alert
\*   sustained   the call just before it was a detector call for the same
\*               symbol with the body on the same side outside the channel
CallRet(args, position, raised, determined, alert) ==
    LET side == current_position(args.open, args.close, args.upper_band, args.lower_band)
        detector == ret.op \in {"detect_30m_cross", "detect_4h_cross"}
    IN  [args |-> args, op |-> args.op, symbol |-> args.symbol,
         pre |-> RecordOf(state, args.symbol), position |-> position,
         side |-> side, raised |-> raised, determined |-> determined,
         alert |-> alert, prevKind |-> lastAlert[args.symbol],
         replay |-> detector /\ ret.args = args /\ ret.alert # NoAlert,
         sustained |-> /\ detector
                       /\ ret.symbol = args.symbol
                       /\ ret.side = side
                       /\ side \in {"above_upper", "below_lower"}]

\* ret for the other operations.
OpRet(op, symbol, raised) ==
    [op |-> op, symbol |-> symbol, raised |-> raised, alert |-> NoAlert]

\* Lines 44-185.
detect_30m_cross(symbol, open_price, close_price, high_price, low_price, upper_band, lower_band, timestamp, io) ==
    LET st1 == _get_coin_state(state, symbol)
        coin_state == st1[symbol]
        position == current_position(open_price, close_price, upper_band, lower_band)
        last_position == coin_state.last_position
        alert == cross_alert(symbol, last_position, position, open_price,
                             close_price, high_price, low_price, upper_band,
                             lower_band, timestamp)
        st2 == [st1 EXCEPT ![symbol] =
                   update_coin_state(coin_state, position, timestamp, alert)]
        args == CallArgs("detect_30m_cross", symbol, open_price, close_price,
                         high_price, low_price, None, upper_band, lower_band,
                         timestamp)
    IN  IF position = "TypeError"
        THEN \* the comparison raises after _get_coin_state, before any update
             /\ io = "ok"
             /\ state' = st1
             /\ ret' = CallRet(args, position, "TypeError", NoAlert, NoAlert)
             /\ UNCHANGED <<file, lastAlert, gc>>
        ELSE /\ st2[symbol].alert_count <= MaxAlerts
             /\ state' = st2
             /\ file' = _save_state(file, st2, io)
             /\ ret' = CallRet(args, position,
                               IF io = "ok" THEN "" ELSE "OSError", alert,
                               IF io = "ok" THEN alert ELSE NoAlert)
             /\ lastAlert' = IF alert # NoAlert
                             THEN [lastAlert EXCEPT ![symbol] = KindOf(alert)]
                             ELSE lastAlert
             /\ UNCHANGED gc

(***************************************************************************)
(* detect_4h_cross.                                                        *)
(***************************************************************************)
\* '_'.join(crossed_lines)
RECURSIVE join_lines(_)
join_lines(lines) ==
    IF lines = <<>> THEN ""
    ELSE IF Len(lines) = 1 THEN lines[1]
    ELSE lines[1] \o "_" \o join_lines(Tail(lines))

\* Lines 197-207: the lines the candle body crosses, in the order appended.
crossed_lines(open_price, close_price, filter_line, upper_band, lower_band) ==
    LET body_high == Max(open_price, close_price)
        body_low == Min(open_price, close_price)
    IN  (IF float_gt(Fin(body_high), upper_band) THEN <<"UPPER_BAND">> ELSE <<>>)
        \o (IF float_le(Fin(body_low), filter_line) /\ float_le(filter_line, Fin(body_high))
            THEN <<"FILTER">> ELSE <<>>)
        \o (IF float_gt(lower_band, Fin(body_low)) THEN <<"LOWER_BAND">> ELSE <<>>)

\* Lines 187-228.
detect_4h_cross(symbol, open_price, close_price, high_price, low_price, filter_line, upper_band, lower_band, timestamp, io) ==
    LET st1 == _get_coin_state(state, symbol)
        lines == crossed_lines(open_price, close_price, filter_line, upper_band, lower_band)
        st2 == [st1 EXCEPT ![symbol].alert_count = @ + 1]
        alert == [symbol |-> symbol, type |-> join_lines(lines),
                  cross_method |-> "BODY", crossed_lines |-> lines,
                  timestamp |-> timestamp, open |-> open_price,
                  high |-> high_price, low |-> low_price, close |-> close_price,
                  filter |-> filter_line, upper_band |-> upper_band,
                  lower_band |-> lower_band]
        args == CallArgs("detect_4h_cross", symbol, open_price, close_price,
                         high_price, low_price, filter_line, upper_band,
                         lower_band, timestamp)
    IN  IF None \in {upper_band, filter_line, lower_band}
        THEN \* one of the three comparisons raises
             /\ io = "ok"
             /\ state' = st1
             /\ ret' = CallRet(args, "n/a", "TypeError", NoAlert, NoAlert)
             /\ UNCHANGED <<file, lastAlert, gc>>
        ELSE IF lines # <<>>
        THEN /\ st2[symbol].alert_count <= MaxAlerts
             /\ state' = st2
             /\ file' = _save_state(file, st2, io)
             /\ ret' = CallRet(args, "n/a",
                               IF io = "ok" THEN "" ELSE "OSError", alert,
                               IF io = "ok" THEN alert ELSE NoAlert)
             /\ UNCHANGED <<lastAlert, gc>>
        ELSE \* nothing crossed: the record may be new, and nothing is saved
             /\ io = "ok"
             /\ state' = st1
             /\ ret' = CallRet(args, "n/a", "", NoAlert, NoAlert)
             /\ UNCHANGED <<file, lastAlert, gc>>

(***************************************************************************)
(* reset_coin_state, a new detector, and the operator deleting the file.   *)
(***************************************************************************)
\* Lines 230-235.
reset_coin_state(symbol, io) ==
    IF symbol \in DOMAIN state
    THEN LET st1 == [s \in DOMAIN state \ {symbol} |-> state[s]]
         IN  /\ state' = st1
             /\ file' = _save_state(file, st1, io)
             /\ ret' = OpRet("reset_coin_state", symbol,
                              IF io = "ok" THEN "" ELSE "OSError")
             /\ lastAlert' = [lastAlert EXCEPT ![symbol] = NoKind]
             /\ UNCHANGED gc
    ELSE /\ io = "ok"
         /\ ret' = OpRet("reset_coin_state", symbol, "")
         /\ UNCHANGED <<state, file, lastAlert, gc>>

\* Lines 13-16: a new detector loads the file.
new_detector ==
    /\ state' = _load_state(file)
    /\ ret' = OpRet("__init__", "", "")
    \* the history of a symbol goes on if the new detector finds it where
    \* the old one left it
    /\ lastAlert' = [s \in Symbols |->
                        IF KnownPosition(RecordOf(_load_state(file), s))
                           = KnownPosition(RecordOf(state, s))
                        THEN lastAlert[s] ELSE NoKind]
    /\ UNCHANGED <<file, gc>>

\* The next run constructs a new detector.
BandCrossDetector__init__ == new_detector /\ UNCHANGED <<run, asm>>

\* The state file is deleted between runs.
DeleteStateFile ==
    /\ file.status # "missing"
    /\ file' = MissingFile
    /\ ret' = OpRet("delete", "", "")
    /\ UNCHANGED <<state, lastAlert, gc, run, asm>>

(***************************************************************************)
(* The detector's specification.                                           *)
(***************************************************************************)
\* Prices below, at and above the level 1 at which the finite bands lie.
Prices == {0, 1, 2}

\* The candles: every body with wicks that span all prices, and malformed
\* candles (low > high).
Candles ==
    {c \in [open : Prices, close : Prices, high : {0, 2}, low : {0, 2}] :
        \/ c.high = 2 /\ c.low = 0
        \/ c.low > c.high /\ c.open = c.close}

\* <<upper_band, lower_band>>: a finite channel, and channels with one value
\* that is nan, infinite or missing.
BandPairs ==
    {<<Fin(1), Fin(1)>>, <<NaN, Fin(1)>>, <<Fin(1), PosInf>>,
     <<None, Fin(1)>>, <<Fin(1), None>>}

\* <<upper_band, lower_band>> for detect_4h_cross, the filter line being 1:
\* the channels above with a finite lower band, and a channel whose upper
\* band a body at 2 does not exceed.
BandPairs4h ==
    {bands \in BandPairs : bands[2] = Fin(1)} \cup {<<Fin(2), Fin(1)>>}

NoGC == [impl |-> "none"]
NoRun == [pc |-> "none"]
NoASM == [op |-> "none"]

Init ==
    /\ state = EmptyState
    /\ file = MissingFile
    /\ ret = OpRet("__init__", "", "")
    /\ lastAlert = [s \in Symbols |-> NoKind]
    /\ gc = NoGC
    /\ run = NoRun
    /\ asm = NoASM

Call30m ==
    \E symbol \in {"BTC"}, c \in Candles, bands \in BandPairs,
       timestamp \in Timestamps :
        /\ detect_30m_cross(symbol, c.open, c.close, c.high, c.low,
                            bands[1], bands[2], timestamp, "ok")
        /\ UNCHANGED <<run, asm>>

Call4h ==
    \E symbol \in {"BTC"}, c \in Candles, bands \in BandPairs4h,
       timestamp \in Timestamps :
        /\ c.high >= c.low
        /\ detect_4h_cross(symbol, c.open, c.close, c.high, c.low, Fin(1),
                           bands[1], bands[2], timestamp, "ok")
        /\ UNCHANGED <<run, asm>>

CallReset ==
    \E symbol \in {"BTC"} :
        /\ reset_coin_state(symbol, "ok")
        /\ UNCHANGED <<run, asm>>

Next ==
    \/ Call30m
    \/ Call4h
    \/ CallReset
    \/ BandCrossDetector__init__
    \/ DeleteStateFile

Spec == Init /\ [][Next]_vars

(***************************************************************************)
(* GaussianChannel.__init__, in its two implementations.  The requested    *)
(* pole count and period are non-negative here, so that beta is never      *)
(* negative and the only exception is the division by zero.                *)
(***************************************************************************)
MinPoles == 1
MaxPoles == 9
MinPeriod == 2

\* src/indicators/gaussian_channel.py: both arguments are clamped, and alpha,
\* beta and lag are computed from the clamped values.
indicators_GaussianChannel__init__(poles, period) ==
    LET self_poles == Max(MinPoles, Min(MaxPoles, poles))
        self_period == Max(MinPeriod, period)
    IN  [impl |-> "indicators", arg_poles |-> poles, arg_period |-> period,
         raised |-> "", poles |-> self_poles, period |-> self_period,
         lag |-> (self_period - 1) \div (2 * self_poles)]

\* src/gaussian_channel.py: the arguments are stored as given; 4*asin(1)/period
\* and 2/poles raise ZeroDivisionError for a zero period or pole count.
GaussianChannel__init__(poles, period) ==
    IF period = 0 \/ poles = 0
    THEN [impl |-> "root", arg_poles |-> poles, arg_period |-> period,
          raised |-> "ZeroDivisionError", poles |-> poles, period |-> period,
          lag |-> 0]
    ELSE [impl |-> "root", arg_poles |-> poles, arg_period |-> period,
          raised |-> "", poles |-> poles, period |-> period,
          lag |-> (period - 1) \div (2 * poles)]

InitGC ==
    /\ state = EmptyState
    /\ file = MissingFile
    /\ ret = OpRet("__init__", "", "")
    /\ lastAlert = [s \in Symbols |-> NoKind]
    /\ gc = NoGC
    /\ run = NoRun
    /\ asm = NoASM

ConstructIndicators ==
    \E poles \in 0..MaxPolesArg, period \in 0..MaxPeriodArg :
        /\ gc' = indicators_GaussianChannel__init__(poles, period)
        /\ UNCHANGED <<state, file, ret, lastAlert, run, asm>>

ConstructRoot ==
    \E poles \in 0..MaxPolesArg, period \in 0..MaxPeriodArg :
        /\ gc' = GaussianChannel__init__(poles, period)
        /\ UNCHANGED <<state, file, ret, lastAlert, run, asm>>

NextGC ==
    \/ ConstructIndicators
    \/ ConstructRoot

SpecGC == InitGC /\ [][NextGC]_vars

(***************************************************************************)
(* The claims about detect_30m_cross and detect_4h_cross, under Spec.      *)
(***************************************************************************)
Detectors == {"detect_30m_cross", "detect_4h_cross"}

\* C1: the first detect_30m_cross call for a symbol that has no record
\* returns no alert, whatever the classification, and when the call has
\* classified the candle the symbol's last_position is that classification.
C1_FirstCallSeeds ==
    (ret.op = "detect_30m_cross" /\ ret.pre = NoRecord) =>
        /\ ret.alert = NoAlert
        /\ ret.determined = NoAlert
        /\ ret.raised = "" =>
              RecordOf(state, ret.symbol).last_position = ret.position

\* C1, its case: a symbol without a record is classified above_upper; no
\* alert, and last_position is above_upper.
C1_Witness ==
    /\ ret.op = "detect_30m_cross"
    /\ ret.pre = NoRecord
    /\ ret.position = "above_upper"
    /\ ret.alert = NoAlert
    /\ RecordOf(state, ret.symbol).last_position = "above_upper"

\* An alert kind is a channel exit (inside to outside) or a re-entry.
IsExit(kind) ==
    kind \in {[type |-> "UPPER_BAND", cross_direction |-> "FROM_BELOW"],
              [type |-> "LOWER_BAND", cross_direction |-> "FROM_ABOVE"]}

C3_NoAlertWhileSustained ==
    (ret.op \in Detectors /\ ret.sustained) => ret.alert = NoAlert

\* C4: a detect_30m_cross call that repeats, with identical arguments, the
\* call just before it, which returned an alert, returns no alert and leaves
\* the symbol's record as it was.
C4_ReplayIdempotent ==
    (ret.op = "detect_30m_cross" /\ ret.replay) =>
        /\ ret.alert = NoAlert
        /\ ret.determined = NoAlert
        /\ RecordOf(state, ret.symbol) = ret.pre

\* C4, its case: a call that fired has been repeated; the record counts one
\* alert and is where the first call left it.
C4_Witness ==
    /\ ret.op = "detect_30m_cross"
    /\ ret.replay
    /\ ret.pre.alert_count = 1
    /\ RecordOf(state, ret.symbol).last_position = ret.position

\* C5: a detect_30m_cross call for a candle whose timestamp was already
\* processed for the symbol returns no alert; stated for the timestamp
\* processed last, which the record holds as last_timestamp.
C5_NoRefireOnSameTimestamp ==
    (/\ ret.op = "detect_30m_cross"
     /\ ret.pre.last_timestamp = ret.args.timestamp) => ret.alert = NoAlert

C7_PositionStoredAndPersisted ==
    (ret.op = "detect_30m_cross" /\ ret.raised = "") =>
        /\ ret.symbol \in DOMAIN state
        /\ state[ret.symbol].last_position = ret.position
        /\ file.status = "ok"
        /\ ret.symbol \in DOMAIN file.data
        /\ file.data[ret.symbol].last_position = ret.position

\* C7, its case: a call that returned no alert moved the record from one
\* side of the channel to the other, and the file holds the new position.
C7_Witness ==
    /\ ret.op = "detect_30m_cross"
    /\ ret.raised = ""
    /\ ret.alert = NoAlert
    /\ ret.pre.last_position = "above_upper"
    /\ ret.position = "below_lower"
    /\ file.status = "ok"
    /\ file.data[ret.symbol].last_position = "below_lower"

\* C8: a detector call whose upper_band or lower_band is missing or not
\* finite returns no alert and leaves the state mapping and the state file
\* as they were.
C8_NonFiniteBandsSkipped ==
    [][(/\ ret'.op \in Detectors
        /\ ~ (IsFinite(ret'.args.upper_band) /\ IsFinite(ret'.args.lower_band)))
       => (ret'.alert = NoAlert /\ state' = state /\ file' = file)]_vars

\* C9: a detector call with a malformed candle (low > high) reports
\* InvalidCandle, returns no alert and leaves the symbol's record as it was.
C9_MalformedCandleRejected ==
    (ret.op \in Detectors /\ ret.args.low > ret.args.high) =>
        /\ ret.raised = "InvalidCandle"
        /\ ret.alert = NoAlert
        /\ RecordOf(state, ret.symbol) = ret.pre

(***************************************************************************)
(* The claim about GaussianChannel.__init__, under SpecGC.                 *)
(***************************************************************************)
\* C10: constructing a GaussianChannel with a pole count outside 1..9 or a
\* period below 2 fails with InvalidParameter.
C10_InvalidParameterRaised ==
    (gc # NoGC /\ (gc.arg_poles \notin MinPoles..MaxPoles \/ gc.arg_period < MinPeriod))
        => gc.raised = "InvalidParameter"

(***************************************************************************)
(* GaussianChannel.calculate and the filter, in both implementations.      *)
(* Floats are modelled as exact rationals [n, d], d > 0, in lowest terms;  *)
(* rounding is not modelled.                                               *)
(***************************************************************************)
MaxLen == 11        \* candle series have 1..MaxLen candles (src/indicators)
MaxRootLen == 6     \* candle series have 1..MaxRootLen candles (src/gaussian_channel.py)

Abs(a) == IF a < 0 THEN -a ELSE a

RECURSIVE GCD(_, _)
GCD(a, b) == IF b = 0 THEN a ELSE GCD(b, a % b)

Rat(n, d) ==
    LET g == GCD(Abs(n), Abs(d))
        s == IF d < 0 THEN -1 ELSE 1
    IN  [n |-> (s * n) \div g, d |-> (s * d) \div g]

RInt(n) == [n |-> n, d |-> 1]
RAdd(a, b) ==
    LET l == (a.d \div GCD(a.d, b.d)) * b.d
    IN  Rat(a.n * (l \div a.d) + b.n * (l \div b.d), l)
RNeg(a) == [n |-> -a.n, d |-> a.d]
RSub(a, b) == RAdd(a, RNeg(b))
RMul(a, b) ==
    LET g1 == GCD(Abs(a.n), b.d)
        g2 == GCD(Abs(b.n), a.d)
    IN  Rat((a.n \div g1) * (b.n \div g2), (a.d \div g2) * (b.d \div g1))
RLe(a, b) == RSub(a, b).n <= 0
RHalf(a) == RMul(a, Rat(1, 2))

RECURSIVE RPow(_, _)
RPow(a, k) == IF k = 0 THEN RInt(1) ELSE RMul(a, RPow(a, k - 1))

\* The candles have filled the first WarmUp outputs when the recurrence of
\* src/indicators/gaussian_channel.py starts (if i < 10).
WarmUp == 10

\* src/indicators/gaussian_channel.py _get_weights: [m1, ..., m9].
indicators_get_weights(poles) ==
    CASE poles = 1 -> <<1, 0, 0, 0, 0, 0, 0, 0, 0>>
      [] poles = 2 -> <<2, 1, 0, 0, 0, 0, 0, 0, 0>>
      [] poles = 3 -> <<3, 3, 1, 0, 0, 0, 0, 0, 0>>
      [] poles = 4 -> <<4, 6, 4, 1, 0, 0, 0, 0, 0>>
      [] poles = 5 -> <<5, 10, 10, 5, 1, 0, 0, 0, 0>>
      [] poles = 6 -> <<6, 15, 20, 15, 6, 1, 0, 0, 0>>
      [] poles = 7 -> <<7, 21, 35, 35, 21, 7, 1, 0, 0>>
      [] poles = 8 -> <<8, 28, 56, 70, 56, 28, 8, 1, 0>>
      [] OTHER -> <<9, 36, 84, 126, 126, 84, 36, 9, 1>>

\* _get_weights that returns the table in the layout of the other
\* implementation, [m1, ..., m9].
_get_weights_shifted(poles) == indicators_get_weights(poles)

\* src/gaussian_channel.py _get_weights: [m2, ..., m9, 0], zeros for a pole
\* count that is not in the table.
_get_weights(poles) ==
    CASE poles = 1 -> <<0, 0, 0, 0, 0, 0, 0, 0, 0>>
      [] poles = 2 -> <<1, 0, 0, 0, 0, 0, 0, 0, 0>>
      [] poles = 3 -> <<3, 1, 0, 0, 0, 0, 0, 0, 0>>
      [] poles = 4 -> <<6, 4, 1, 0, 0, 0, 0, 0, 0>>
      [] poles = 5 -> <<10, 10, 5, 1, 0, 0, 0, 0, 0>>
      [] poles = 6 -> <<15, 20, 15, 6, 1, 0, 0, 0, 0>>
      [] poles = 7 -> <<21, 35, 35, 21, 7, 1, 0, 0, 0>>
      [] poles = 8 -> <<28, 56, 70, 56, 28, 8, 1, 0, 0>>
      [] poles = 9 -> <<36, 84, 126, 126, 84, 36, 9, 1, 0>>
      [] OTHER -> <<0, 0, 0, 0, 0, 0, 0, 0, 0>>

\* The term of the j-th previous output: + for odd j, - for even j.
filter_term(j, weight, x, previous) ==
    LET t == RMul(RMul(RInt(weight), RPow(x, j)), previous)
    IN  IF j % 2 = 1 THEN t ELSE RNeg(t)

\* Lines 115-133 of src/indicators/gaussian_channel.py: the terms j..poles
\* of output k (Python index k - 1), filt holding the outputs before it.
RECURSIVE indicators_filter_terms(_, _, _, _, _)
indicators_filter_terms(j, poles, x, filt, k) ==
    IF j > poles \/ j > 9 THEN RInt(0)
    ELSE RAdd(filter_term(j, indicators_get_weights(poles)[j], x, filt[k - j]),
              indicators_filter_terms(j + 1, poles, x, filt, k))

\* src/indicators/gaussian_channel.py _calculate_filter: the first k outputs.
RECURSIVE _calculate_filter(_, _, _, _)
_calculate_filter(alpha, source, poles, k) ==
    IF k = 0 THEN <<>>
    ELSE LET filt == _calculate_filter(alpha, source, poles, k - 1)
         IN  Append(filt,
                 IF k <= WarmUp THEN source[k]
                 ELSE RAdd(RMul(RPow(alpha, poles), source[k]),
                           indicators_filter_terms(1, poles, RSub(RInt(1), alpha),
                                                   filt, k)))

\* Lines 69-89 of src/gaussian_channel.py: the terms j..9 of output k; the
\* j-th needs poles >= j (poles == 9 for the ninth) and j outputs before it,
\* so that no term beyond the poles-th is taken.
RECURSIVE _filter_terms(_, _, _, _, _)
_filter_terms(j, poles, x, result, k) ==
    IF j > 9 \/ j > poles THEN RInt(0)
    ELSE LET weight == IF j = 1 THEN poles ELSE _get_weights(poles)[j - 1]
             taken == IF j = 1 THEN TRUE
                      ELSE IF j = 9 THEN poles = 9 /\ k - 1 >= 9
                      ELSE poles >= j /\ k - 1 >= j
         IN  RAdd(IF taken THEN filter_term(j, weight, x, result[k - j])
                  ELSE RInt(0),
                  _filter_terms(j + 1, poles, x, result, k))

\* src/gaussian_channel.py _filter_function: the first k outputs.
RECURSIVE _filter_function(_, _, _, _)
_filter_function(alpha, source, poles, k) ==
    IF k = 0 THEN <<>>
    ELSE LET result == _filter_function(alpha, source, poles, k - 1)
         IN  Append(result,
                 IF k = 1 THEN RMul(RPow(alpha, poles), source[1])
                 ELSE RAdd(RMul(RPow(alpha, poles), source[k]),
                           _filter_terms(1, poles, RSub(RInt(1), alpha),
                                         result, k)))

\* (high + low + close) / 3
hlc3(candles) ==
    [k \in 1..Len(candles) |->
        Rat(candles[k].high + candles[k].low + candles[k].close, 3)]

\* Lines 156-163 of src/indicators/gaussian_channel.py.
indicators_true_range(candles) ==
    [k \in 1..Len(candles) |->
        IF k = 1 THEN RInt(candles[1].high - candles[1].low)
        ELSE RInt(Max(candles[k].high - candles[k].low,
                      Max(Abs(candles[k].high - candles[k - 1].close),
                          Abs(candles[k].low - candles[k - 1].close))))]

\* Lines 111-116 of src/gaussian_channel.py: the first row has no previous
\* close and takes 0 for the two distances to it.
true_range(candles) ==
    [k \in 1..Len(candles) |->
        IF k = 1 THEN RInt(Max(candles[1].high - candles[1].low, 0))
        ELSE RInt(Max(candles[k].high - candles[k].low,
                      Max(Abs(candles[k].high - candles[k - 1].close),
                          Abs(candles[k].low - candles[k - 1].close))))]

\* data[i] + (data[i] - data[i - lag]) from index lag on, data[i] before.
lag_reduced(data, lag) ==
    [k \in 1..Len(data) |->
        IF k > lag THEN RAdd(data[k], RSub(data[k], data[k - lag])) ELSE data[k]]

\* The outcome of a calculation, from the filtered source and true range.
channel(obj, srcdata, trdata, filtn, filt, filttr) ==
    [obj EXCEPT
        !.done = TRUE,
        !.srcdata = srcdata,
        !.trdata = trdata,
        !.filtn = filtn,
        !.filter = filt,
        !.upper_band = [k \in 1..Len(filt) |->
                           RAdd(filt[k], RMul(filttr[k], obj.multiplier))],
        !.lower_band = [k \in 1..Len(filt) |->
                           RSub(filt[k], RMul(filttr[k], obj.multiplier))]]

\* src/indicators/gaussian_channel.py calculate, lines 139-196.
indicators_calculate(obj) ==
    LET n == Len(obj.candles)
        lagged == obj.reduced_lag /\ n > obj.lag
        srcdata == IF lagged THEN lag_reduced(hlc3(obj.candles), obj.lag)
                   ELSE hlc3(obj.candles)
        trdata == IF lagged
                  THEN lag_reduced(indicators_true_range(obj.candles), obj.lag)
                  ELSE indicators_true_range(obj.candles)
        filtn == _calculate_filter(obj.alpha, srcdata, obj.poles, n)
        filtntr == _calculate_filter(obj.alpha, trdata, obj.poles, n)
        filt1 == _calculate_filter(obj.alpha, srcdata, 1, n)
        filt1tr == _calculate_filter(obj.alpha, trdata, 1, n)
    IN  IF obj.fast_response
        THEN channel(obj, srcdata, trdata, filtn,
                     [k \in 1..n |-> RHalf(RAdd(filtn[k], filt1[k]))],
                     [k \in 1..n |-> RHalf(RAdd(filtntr[k], filt1tr[k]))])
        ELSE channel(obj, srcdata, trdata, filtn, filtn, filtntr)

\* src/gaussian_channel.py calculate, lines 95-152.
calculate(obj) ==
    LET n == Len(obj.candles)
        lagged == obj.reduced_lag /\ obj.lag > 0
        srcdata == IF lagged THEN lag_reduced(hlc3(obj.candles), obj.lag)
                   ELSE hlc3(obj.candles)
        trdata == IF lagged THEN lag_reduced(true_range(obj.candles), obj.lag)
                  ELSE true_range(obj.candles)
        filt_n == _filter_function(obj.alpha, srcdata, obj.poles, n)
        filt_n_tr == _filter_function(obj.alpha, trdata, obj.poles, n)
        filt_1 == _filter_function(obj.alpha, srcdata, 1, n)
        filt_1_tr == _filter_function(obj.alpha, trdata, 1, n)
    IN  IF obj.fast_response
        THEN channel(obj, srcdata, trdata, filt_n,
                     [k \in 1..n |-> RHalf(RAdd(filt_n[k], filt_1[k]))],
                     [k \in 1..n |-> RHalf(RAdd(filt_n_tr[k], filt_1_tr[k]))])
        ELSE channel(obj, srcdata, trdata, filt_n, filt_n, filt_n_tr)

(***************************************************************************)
(* The specification of the calculation: a channel object and a candle     *)
(* series are drawn, and calculate is applied to them.                     *)
(***************************************************************************)
\* Well-formed candles: a wide one and a flat one inside it.
CalcCandles == {[high |-> 4, low |-> 0, close |-> 2],
                [high |-> 2, low |-> 2, close |-> 2]}
CalcPoles == {1, 2}
CalcPeriods == {5}
\* self.alpha lies strictly between 0 and 1 for poles >= 1 and period >= 2.
Alphas == {Rat(1, 2)}
Multipliers == {RInt(1), RInt(-1)}

\* A constructed channel with the series it is about to be given.
CalcInput(ctor, alpha, multiplier, reduced_lag, fast_response, candles) ==
    [impl |-> ctor.impl, poles |-> ctor.poles, period |-> ctor.period,
     lag |-> ctor.lag, alpha |-> alpha, multiplier |-> multiplier,
     reduced_lag |-> reduced_lag, fast_response |-> fast_response,
     candles |-> candles, done |-> FALSE,
     srcdata |-> <<>>, trdata |-> <<>>, filtn |-> <<>>,
     filter |-> <<>>, upper_band |-> <<>>, lower_band |-> <<>>]

InitCalc ==
    /\ state = EmptyState
    /\ file = MissingFile
    /\ ret = OpRet("__init__", "", "")
    /\ lastAlert = [s \in Symbols |-> NoKind]
    /\ run = NoRun
    /\ asm = NoASM
    /\ \E poles \in CalcPoles, period \in CalcPeriods, alpha \in Alphas,
          multiplier \in Multipliers, reduced_lag \in BOOLEAN,
          fast_response \in BOOLEAN :
         \/ \E n \in 1..MaxLen : \E candles \in [1..n -> CalcCandles] :
                gc = CalcInput(indicators_GaussianChannel__init__(poles, period),
                               alpha, multiplier, reduced_lag, fast_response,
                               candles)
         \/ \E n \in 1..MaxRootLen : \E candles \in [1..n -> CalcCandles] :
                gc = CalcInput(GaussianChannel__init__(poles, period),
                               alpha, multiplier, reduced_lag, fast_response,
                               candles)

CalculateIndicators ==
    /\ gc.impl = "indicators"
    /\ ~ gc.done
    /\ gc' = indicators_calculate(gc)
    /\ UNCHANGED <<state, file, ret, lastAlert, run, asm>>

CalculateRoot ==
    /\ gc.impl = "root"
    /\ ~ gc.done
    /\ gc' = calculate(gc)
    /\ UNCHANGED <<state, file, ret, lastAlert, run, asm>>

NextCalc ==
    \/ CalculateIndicators
    \/ CalculateRoot

SpecCalc == InitCalc /\ [][NextCalc]_vars

\* The direct single-pole recurrence y[i] = alpha*x[i] + (1-alpha)*y[i-1],
\* without the y[i-1] term at the first index: its first k outputs.
RECURSIVE single_pole(_, _, _)
single_pole(alpha, source, k) ==
    IF k = 0 THEN <<>>
    ELSE LET y == single_pole(alpha, source, k - 1)
         IN  Append(y, IF k = 1 THEN RMul(alpha, source[1])
                       ELSE RAdd(RMul(alpha, source[k]),
                                 RMul(RSub(RInt(1), alpha), y[k - 1])))

\* C11: in every calculated channel lower_band[i] <= filter[i] <=
\* upper_band[i] at every index i.
C11_BandsOrdered ==
    (gc # NoGC /\ gc.done) =>
        \A k \in 1..Len(gc.filter) :
            /\ RLe(gc.lower_band[k], gc.filter[k])
            /\ RLe(gc.filter[k], gc.upper_band[k])

\* C12: with pole count 1 the filter output equals the direct single-pole
\* recurrence at every index.
C12_SinglePoleRecurrence ==
    (gc # NoGC /\ gc.done /\ gc.poles = 1) =>
        gc.filtn = single_pole(gc.alpha, gc.srcdata, Len(gc.srcdata))

(***************************************************************************)
(* The claims about the state file, under Spec.                            *)
(***************************************************************************)
Operations == {"detect_30m_cross", "detect_4h_cross", "reset_coin_state"}

\* C13: when a detector call (detect_30m_cross, detect_4h_cross,
\* reset_coin_state) that changed the state mapping returns, the state file
\* holds the state mapping.
C13_WriteThrough ==
    [][(ret'.op \in Operations /\ ret'.raised = "" /\ state' # state)
          => file' = FileOf(state')]_vars

(***************************************************************************)
(* run, the variable, holds:                                               *)
(*   pc            "idle", "loop", "done" or "crashed"                     *)
(*   n, i          the number of the run, the index of the next coin       *)
(*   batch_alerts  self.batch_alerts                                       *)
(*   delivered     the alerts Telegram took                                *)
(*   data, called  the last turn: what was retrieved, and whether the      *)
(*                 detector was called                                     *)
(*   skipped       the coins of this run that returned before the call     *)
(*   crashes       history: how often the process has died                 *)
(*   written       history: per symbol, the record the last detector call  *)
(*                 that returned normally left in the file                 *)
(*                                                                         *)
(* Gaussian30m (src/test_gc_30m.py): a run analyses the coins one after    *)
(* the other with one detector and then sends the collected alerts.  The   *)
(* process can die at any point, and a write of the state file can fail.   *)
(***************************************************************************)
\* config/coins.txt, as load_coins reads it.
Coins == <<"BTC", "ETH">>

\* What a source returns: "none" (None, also when the request raises),
\* "empty" (no candle), "short" (fewer than 150 candles) or "full".
Sources == <<"BingX Perpetuals", "BingX Spot", "KuCoin", "OKX">>
NoData == [data |-> "none", source |-> "none"]

\* fetch_ohlcv_with_fallback from source k on: the first source whose data
\* has a candle.
RECURSIVE fetch_from(_, _)
fetch_from(results, k) ==
    IF k > Len(Sources) THEN NoData
    ELSE IF results[k] \notin {"none", "empty"}
    THEN [data |-> results[k], source |-> Sources[k]]
    ELSE fetch_from(results, k + 1)

fetch_ohlcv_with_fallback(results) == fetch_from(results, 1)

\* insufficient that never holds.
insufficient_never(data) == FALSE

\* Line 57 of analyze_coin: not data or len(data['close']) < 150.
insufficient(data) == data \in {"none", "empty", "short"}

\* What the four sources return for one symbol.
Fetches ==
    {<<"none", "none", "none", "none">>,
     <<"none", "short", "full", "none">>,
     <<"full", "none", "none", "none">>,
     <<"empty", "none", "none", "full">>}

\* The candle at index -2: a body below, inside or above the channel.
RunCandles == {c \in Candles : c.open = c.close /\ c.high > c.low}

NoWritten == [s \in Symbols |-> NoRecord]

\* ret for an analyze_coin that returned before it called the detector.
SkipRet(symbol, got) ==
    [op |-> "analyze_coin", symbol |-> symbol, raised |-> "", alert |-> NoAlert,
     data |-> got.data, source |-> got.source]

\* analyze_coin, lines 53-92, for the coin at run.i; killed: the process dies
\* while _save_state is writing.
analyze_coin(symbol, results, c, io, killed) ==
    LET got == fetch_ohlcv_with_fallback(results)
    IN  IF insufficient(got.data)
        THEN /\ io = "ok" /\ ~ killed
             /\ ret' = SkipRet(symbol, got)
             /\ run' = [run EXCEPT !.i = @ + 1, !.called = FALSE,
                                   !.data = got.data,
                                   !.skipped = @ \cup {symbol}]
             /\ UNCHANGED <<state, file, lastAlert, gc>>
        ELSE /\ detect_30m_cross(symbol, c.open, c.close, c.high, c.low,
                                 Fin(1), Fin(1), run.n, io)
             /\ run' = [run EXCEPT
                    !.pc = IF killed THEN "crashed" ELSE @,
                    !.crashes = IF killed THEN @ + 1 ELSE @,
                    !.i = @ + 1,
                    !.called = TRUE,
                    !.data = got.data,
                    !.batch_alerts = IF ret'.alert # NoAlert
                                     THEN Append(@, ret'.alert) ELSE @,
                    !.written = IF ret'.raised = ""
                                THEN [@ EXCEPT ![symbol] = state'[symbol]]
                                ELSE @]

InitRun ==
    /\ state = EmptyState
    /\ file = MissingFile
    /\ ret = OpRet("__init__", "", "")
    /\ lastAlert = [s \in Symbols |-> NoKind]
    /\ gc = NoGC
    /\ asm = NoASM
    /\ run = [pc |-> "idle", n |-> 0, i |-> 1, called |-> FALSE,
              data |-> "none", skipped |-> {}, crashes |-> 0,
              batch_alerts |-> <<>>, delivered |-> <<>>,
              written |-> NoWritten]

\* Gaussian30m.__init__ and the start of run: run number n works on the
\* candle with timestamp n.
StartRun ==
    /\ run.pc \in {"idle", "done", "crashed"}
    /\ run.n < MaxTs
    /\ new_detector
    /\ UNCHANGED asm
    /\ run' = [run EXCEPT !.pc = "loop", !.n = @ + 1, !.i = 1,
                          !.called = FALSE, !.data = "none", !.skipped = {},
                          !.batch_alerts = <<>>, !.delivered = <<>>]

\* One turn of the loop of run, lines 135-137.
AnalyzeCoin ==
    /\ run.pc = "loop"
    /\ run.i <= Len(Coins)
    /\ UNCHANGED asm
    /\ \E results \in Fetches, c \in RunCandles, io \in SaveOutcomes :
           analyze_coin(Coins[run.i], results, c, io, FALSE)

\* The process is killed while the detector call of this turn writes the file.
KillInSave ==
    /\ run.pc = "loop"
    /\ run.i <= Len(Coins)
    /\ UNCHANGED asm
    /\ \E results \in Fetches, c \in RunCandles :
           analyze_coin(Coins[run.i], results, c, "partial", TRUE)

\* The process dies between two turns of the loop or before the alerts are
\* sent: its memory, the batch included, is gone.
Crash ==
    /\ run.pc = "loop"
    /\ run' = [run EXCEPT !.pc = "crashed", !.crashes = @ + 1]
    /\ ret' = OpRet("crash", "", "")
    /\ UNCHANGED <<state, file, lastAlert, gc, asm>>

\* send_batch_alerts, lines 101-121, after the loop: Telegram takes the batch
\* or refuses it.
send_batch_alerts ==
    /\ run.pc = "loop"
    /\ run.i > Len(Coins)
    /\ \E success \in BOOLEAN :
           run' = [run EXCEPT !.pc = "done",
                              !.delivered = IF success THEN run.batch_alerts
                                            ELSE <<>>]
    /\ ret' = OpRet("send_batch_alerts", "", "")
    /\ UNCHANGED <<state, file, lastAlert, gc, asm>>

NextRun ==
    \/ StartRun
    \/ AnalyzeCoin
    \/ KillInSave
    \/ Crash
    \/ send_batch_alerts

SpecRun == InitRun /\ [][NextRun]_vars

(***************************************************************************)
(* The claims about runs, under SpecRun.                                   *)
(***************************************************************************)
\* C14: a record that was written to the store stays present, in the memory
\* of the detector of this and of every later run (no run here calls
\* reset_coin_state).
C14_RecordStays ==
    run.pc = "loop" =>
        \A s \in Symbols : run.written[s] # NoRecord => s \in DOMAIN state

\* C15: when the process has died at one point of a run, at most one alert
\* that the run's detector calls returned, and that the state file records
\* as fired, has not been delivered.
C15_AtMostOneAlertLost ==
    (run.pc = "crashed" /\ run.crashes = 1) =>
        Len(run.batch_alerts) - Len(run.delivered) <= 1

\* C16: when the write of the state file fails in a detector call, the call
\* raises, the classification of the call stays in memory, and the alert the
\* call determined is in the alert batch.
C16_SaveFailureKeepsAlert ==
    (/\ run.pc = "loop"
     /\ ret.op = "detect_30m_cross"
     /\ ret.raised = "OSError") =>
        /\ RecordOf(state, ret.symbol).last_position = ret.position
        /\ ret.determined # NoAlert =>
              \E k \in 1..Len(run.batch_alerts) :
                  run.batch_alerts[k] = ret.determined

\* C18: wherever a run stops, the state file is readable and holds, for every
\* symbol, the record its last normally returning detector call wrote.
C18_FileHoldsWrittenRecords ==
    /\ file.status # "corrupt"
    /\ \A s \in Symbols :
           run.written[s] # NoRecord =>
               RecordOf(_load_state(file), s) = run.written[s]

\* C19: a turn of the loop whose retrieval brings no data or too few candles
\* calls no detector, leaves the state mapping and the state file as they
\* were, and the run goes on with the next coin.
C19_RetrievalFailureSkips ==
    [][(/\ run.pc = "loop"
        /\ run'.i = run.i + 1
        /\ run'.data \in {"none", "empty", "short"})
          => (/\ ~ run'.called
              /\ state' = state
              /\ file' = file
              /\ run'.pc = "loop")]_vars

\* C19, its case: in the second run BTC, which has a record, was skipped and
\* kept its record, and ETH after it was analysed.
C19_Witness ==
    /\ run.pc = "loop"
    /\ run.n = 2
    /\ run.skipped = {"BTC"}
    /\ run.written["BTC"] # NoRecord
    /\ RecordOf(state, "BTC") = run.written["BTC"]
    /\ ret.op = "detect_30m_cross"
    /\ ret.symbol = "ETH"
    /\ ret.raised = ""

(***************************************************************************)
(* Two detector instances on one state file.  state is the memory of the   *)
(* instance that is running, run.other the memory of the one that is not;  *)
(* the calls of the two interleave, each call being atomic.  run holds:    *)
(*   active   the instance that is running, 1 or 2                         *)
(*   other    self.state of the other instance                             *)
(*   calls    the number of detector calls so far                          *)
(*   stale    history, per instance: the other instance has written the    *)
(*            file since this one loaded it                                *)
(*   raced    history: an instance has written the file while stale        *)
(*   latest   history: per symbol, the record its last completed call left *)
(***************************************************************************)
MaxCalls == 3       \* detector calls of the two instances together

InitRace ==
    /\ state = EmptyState
    /\ file = MissingFile
    /\ ret = OpRet("__init__", "", "")
    /\ lastAlert = [s \in Symbols |-> NoKind]
    /\ gc = NoGC
    /\ asm = NoASM
    /\ run = [pc |-> "race", active |-> 1, other |-> EmptyState, calls |-> 0,
              stale |-> [k \in {1, 2} |-> FALSE], raced |-> FALSE,
              latest |-> NoWritten]

\* The running instance processes a symbol; call number n has timestamp n.
RaceCall ==
    /\ run.calls < MaxCalls
    /\ UNCHANGED asm
    /\ \E symbol \in Symbols, c \in RunCandles :
           /\ detect_30m_cross(symbol, c.open, c.close, c.high, c.low,
                               Fin(1), Fin(1), run.calls + 1, "ok")
           /\ run' = [run EXCEPT
                  !.calls = @ + 1,
                  !.stale = [@ EXCEPT ![3 - run.active] = TRUE],
                  !.raced = @ \/ run.stale[run.active],
                  !.latest = [@ EXCEPT ![symbol] = state'[symbol]]]

\* The other instance gets to run.
RaceSwitch ==
    /\ state' = run.other
    /\ run' = [run EXCEPT !.active = 3 - @, !.other = state]
    /\ ret' = OpRet("switch", "", "")
    /\ UNCHANGED <<file, lastAlert, gc, asm>>

\* The running instance ends and a new one starts in its place: it loads
\* the file.
RaceLoad ==
    /\ new_detector
    /\ UNCHANGED asm
    /\ run' = [run EXCEPT !.stale = [@ EXCEPT ![run.active] = FALSE]]

NextRace ==
    \/ RaceCall
    \/ RaceSwitch
    \/ RaceLoad

SpecRace == InitRace /\ [][NextRace]_vars

MaxRecords == 2     \* record_alert calls

\* key = f"{symbol}_{cross_type}"
KeyOf(symbol, cross_type) == symbol \o "_" \o cross_type

NoEntry == [price |-> None, band_value |-> None, cross_type |-> "none"]
EmptyAlertState == [k \in {} |-> NoEntry]

\* has_reset for the cross types swapped: upper_band resets above the band.
has_reset_swapped(cross_type, current_price, band_value, last_price, last_band) ==
    CASE cross_type = "lower_band" ->
            float_gt(band_value, current_price) /\ float_le(last_band, last_price)
      [] cross_type = "upper_band" ->
            float_gt(current_price, band_value) /\ float_le(last_price, last_band)
      [] cross_type = "filter_line" ->
            float_gt(last_price, last_band) # float_gt(current_price, band_value)
      [] OTHER -> FALSE

\* Lines 69-82: whether the price has returned to the other side.
has_reset(cross_type, current_price, band_value, last_price, last_band) ==
    CASE cross_type = "upper_band" ->
            float_gt(band_value, current_price) /\ float_le(last_band, last_price)
      [] cross_type = "lower_band" ->
            float_gt(current_price, band_value) /\ float_le(last_price, last_band)
      [] cross_type = "filter_line" ->
            float_gt(last_price, last_band) # float_gt(current_price, band_value)
      [] OTHER -> FALSE

\* asm after a call.
ASMCall(st, f, records, op, symbol, cross_type, price, band_value, had, last, result) ==
    [state |-> st, file |-> f, records |-> records, op |-> op,
     symbol |-> symbol, cross_type |-> cross_type, price |-> price,
     band_value |-> band_value, had |-> had, last |-> last, result |-> result]

\* Lines 45-84.
should_send_alert(symbol, cross_type, current_price, band_value) ==
    LET key == KeyOf(symbol, cross_type)
        had == key \in DOMAIN asm.state
        last_alert == IF had THEN asm.state[key] ELSE NoEntry
        result == IF ~ had THEN TRUE
                  ELSE has_reset(cross_type, current_price, band_value,
                                 last_alert.price, last_alert.band_value)
    IN  asm' = ASMCall(asm.state, asm.file, asm.records, "should_send_alert",
                       symbol, cross_type, current_price, band_value, had,
                       last_alert, result)

\* Lines 37-43: the file after _save_state, which swallows its exceptions.
alert_save_state(f, st, io) ==
    CASE io = "ok" -> [status |-> "ok", data |-> st]
      [] io = "fail" -> f
      [] OTHER -> [status |-> "corrupt", data |-> EmptyAlertState]

\* Lines 26-35.
alert_load_state(f) == IF f.status = "ok" THEN f.data ELSE EmptyAlertState

\* Lines 86-104.
record_alert(symbol, cross_type, price, band_value, io) ==
    LET key == KeyOf(symbol, cross_type)
        had == key \in DOMAIN asm.state
        entry == [price |-> price, band_value |-> band_value,
                  cross_type |-> cross_type]
        st == [k \in DOMAIN asm.state \cup {key} |->
                  IF k = key THEN entry ELSE asm.state[k]]
    IN  asm' = ASMCall(st, alert_save_state(asm.file, st, io), asm.records + 1,
                       "record_alert", symbol, cross_type, price, band_value,
                       had, IF had THEN asm.state[key] ELSE NoEntry, FALSE)

\* Lines 18-24: a new manager loads the file.
AlertStateManager__init__ ==
    /\ asm' = ASMCall(alert_load_state(asm.file), asm.file, asm.records,
                      "__init__", "", "", None, None, FALSE, NoEntry, FALSE)
    /\ UNCHANGED <<state, file, ret, lastAlert, gc, run>>

CrossTypes == {"upper_band", "lower_band", "filter_line", "other"}
AlertPrices == {Fin(0), Fin(1), Fin(2), NaN}
AlertBands == {Fin(1), Fin(2)}
\* What record_alert is given: a finite price below, at or above the band 1.
RecordedPrices == {p \in AlertPrices : IsFinite(p)}
RecordedBands == {Fin(1)}

InitASM ==
    /\ state = EmptyState
    /\ file = MissingFile
    /\ ret = OpRet("__init__", "", "")
    /\ lastAlert = [s \in Symbols |-> NoKind]
    /\ gc = NoGC
    /\ run = NoRun
    /\ asm = ASMCall(EmptyAlertState,
                     [status |-> "missing", data |-> EmptyAlertState], 0,
                     "__init__", "", "", None, None, FALSE, NoEntry, FALSE)

ShouldSendAlert ==
    /\ \E cross_type \in CrossTypes, current_price \in AlertPrices,
          band_value \in AlertBands :
           should_send_alert("BTC", cross_type, current_price, band_value)
    /\ UNCHANGED <<state, file, ret, lastAlert, gc, run>>

RecordAlert ==
    /\ asm.records < MaxRecords
    /\ \E cross_type \in CrossTypes, price \in RecordedPrices,
          band_value \in RecordedBands, io \in {"ok", "fail"} :
           record_alert("BTC", cross_type, price, band_value, io)
    /\ UNCHANGED <<state, file, ret, lastAlert, gc, run>>

NextASM ==
    \/ ShouldSendAlert
    \/ RecordAlert
    \/ AlertStateManager__init__

SpecASM == InitASM /\ [][NextASM]_vars

\* C20: for cross_type upper_band, should_send_alert returns True when the
\* key has no entry; when the entry was recorded at a price at or above its
\* band, it returns False for a current_price that is not below band_value
\* and True for a current_price below band_value.
C20_UpperBandDedup ==
    (asm.op = "should_send_alert" /\ asm.cross_type = "upper_band") =>
        /\ ~ asm.had => asm.result
        /\ (asm.had /\ float_le(asm.last.band_value, asm.last.price)) =>
              asm.result = float_gt(asm.band_value, asm.price)

\* C20, its case: after an alert recorded at 2 over the band 1, a query at 2
\* over the band 1 is a duplicate.
C20_Witness ==
    /\ asm.op = "should_send_alert"
    /\ asm.cross_type = "upper_band"
    /\ asm.had
    /\ asm.last.price = Fin(2)
    /\ asm.last.band_value = Fin(1)
    /\ asm.price = Fin(2)
    /\ asm.band_value = Fin(1)
    /\ ~ asm.result

(***************************************************************************)
(* One detector and two symbols: the calls for BTC and for ETH interleave, *)
(* state writes succeed, the channel is finite (both bands at 1, the       *)
(* filter line of detect_4h_cross at 2).                                   *)
(***************************************************************************)
InitFrame ==
    /\ state = EmptyState
    /\ file = MissingFile
    /\ ret = OpRet("__init__", "", "")
    /\ lastAlert = [s \in Symbols |-> NoKind]
    /\ gc = NoGC
    /\ run = NoRun
    /\ asm = NoASM

FrameCall30m ==
    \E symbol \in Symbols, c \in RunCandles :
        /\ detect_30m_cross(symbol, c.open, c.close, c.high, c.low,
                            Fin(1), Fin(1), 1, "ok")
        /\ UNCHANGED <<run, asm>>

FrameCall4h ==
    \E symbol \in Symbols, c \in RunCandles :
        /\ detect_4h_cross(symbol, c.open, c.close, c.high, c.low, Fin(2),
                           Fin(1), Fin(1), 1, "ok")
        /\ UNCHANGED <<run, asm>>

NextFrame ==
    \/ FrameCall30m
    \/ FrameCall4h
    \/ BandCrossDetector__init__

SpecFrame == InitFrame /\ [][NextFrame]_vars

\* C21: a detect_30m_cross or detect_4h_cross call for a symbol leaves the
\* record of every other symbol as it was, in memory and in the state file.
C21_OtherRecordsUnchanged ==
    [][ret'.op \in Detectors =>
          \A s \in Symbols \ {ret'.symbol} :
              /\ RecordOf(state', s) = RecordOf(state, s)
              /\ RecordOf(_load_state(file'), s) = RecordOf(_load_state(file), s)]_vars

(***************************************************************************)
(* The claims about the classification and the alerts of detect_30m_cross, *)
(* under Spec.                                                             *)
(***************************************************************************)
\* C22: detect_30m_cross, given bands that are floats, classifies the candle
\* from its body only: above_upper when min(open, close) > upper_band,
\* otherwise below_lower when max(open, close) < lower_band, otherwise
\* inside; one of the three results, whatever high and low are.
C22_BodyClassification ==
    (/\ ret.op = "detect_30m_cross"
     /\ ret.args.upper_band # None
     /\ ret.args.lower_band # None) =>
        LET body_high == IF ret.args.open >= ret.args.close
                         THEN ret.args.open ELSE ret.args.close
            body_low == IF ret.args.open <= ret.args.close
                        THEN ret.args.open ELSE ret.args.close
        IN  /\ ret.raised = ""
            /\ ret.position \in {"above_upper", "below_lower", "inside"}
            /\ ret.position = "above_upper"
                  <=> float_gt(Fin(body_low), ret.args.upper_band)
            /\ ret.position = "below_lower"
                  <=> /\ ~ float_gt(Fin(body_low), ret.args.upper_band)
                      /\ float_gt(ret.args.lower_band, Fin(body_high))

\* C22, its case: a candle that opens on the upper band and closes above it,
\* its high above the band and its low under the lower band, is inside.
C22_Witness ==
    /\ ret.op = "detect_30m_cross"
    /\ ret.args.open = 1
    /\ ret.args.close = 2
    /\ ret.args.high = 2
    /\ ret.args.low = 0
    /\ ret.args.upper_band = Fin(1)
    /\ ret.args.lower_band = Fin(1)
    /\ ret.position = "inside"

(***************************************************************************)
(* The claims about the filter recurrence and its weights, under SpecCalc. *)
(***************************************************************************)
\* The binomial coefficient C(p, k), by Pascal's rule.
RECURSIVE Binomial(_, _)
Binomial(p, k) ==
    IF k = 0 THEN 1
    ELSE IF k > p THEN 0
    ELSE Binomial(p - 1, k - 1) + Binomial(p - 1, k)

\* The terms j..p of the recurrence for output k (index k - 1), those that
\* reach before the first output left out.
RECURSIVE recurrence_terms(_, _, _, _, _)
recurrence_terms(j, p, x, y, k) ==
    IF j > p THEN RInt(0)
    ELSE RAdd(IF k - j >= 1
              THEN LET t == RMul(RMul(RInt(Binomial(p, j)), RPow(x, j)), y[k - j])
                   IN  IF j % 2 = 1 THEN t ELSE RNeg(t)
              ELSE RInt(0),
              recurrence_terms(j + 1, p, x, y, k))

\* y[i] = alpha^p x[i] + sum over j = 1..p of (-1)^(j+1) C(p,j) (1-alpha)^j
\* y[i-j]: its first k outputs.
RECURSIVE recurrence(_, _, _, _)
recurrence(alpha, source, p, k) ==
    IF k = 0 THEN <<>>
    ELSE LET y == recurrence(alpha, source, p, k - 1)
         IN  Append(y, RAdd(RMul(RPow(alpha, p), source[k]),
                            recurrence_terms(1, p, RSub(RInt(1), alpha), y, k)))

\* C23: at every index, the first ones included, the output of the N-pole
\* filter is the recurrence with exactly the terms that reach before index 0
\* left out.
C23_RecurrenceFromFirstIndex ==
    (gc # NoGC /\ gc.done) =>
        gc.filtn = recurrence(gc.alpha, gc.srcdata, gc.poles, Len(gc.srcdata))

\* Lines 116-133 of src/indicators/gaussian_channel.py: the coefficient of
\* filt[i-j] in val, 0 when the term is not taken.
indicators_coefficient(poles, j) ==
    IF j = 1 \/ poles >= j
    THEN (IF j % 2 = 1 THEN 1 ELSE -1) * indicators_get_weights(poles)[j]
    ELSE 0

\* Lines 72-89 of src/gaussian_channel.py: the coefficient of result[i-j] in
\* val at an index i >= j, 0 when the term is not taken.
coefficient(poles, j) ==
    IF j = 1 THEN poles
    ELSE IF (j < 9 /\ poles >= j) \/ (j = 9 /\ poles = 9)
    THEN (IF j % 2 = 1 THEN 1 ELSE -1) * _get_weights(poles)[j - 1]
    ELSE 0

\* A pole count and the number j of a previous output are drawn, and the
\* coefficient the filter gives that output is looked up.
InitWeights ==
    /\ state = EmptyState
    /\ file = MissingFile
    /\ ret = OpRet("__init__", "", "")
    /\ lastAlert = [s \in Symbols |-> NoKind]
    /\ run = NoRun
    /\ asm = NoASM
    /\ \E impl \in {"indicators", "root"}, poles \in MinPoles..MaxPoles,
          j \in 1..9 :
           gc = [impl |-> impl, poles |-> poles, j |-> j, done |-> FALSE,
                 coefficient |-> 0]

WeightIndicators ==
    /\ gc.impl = "indicators"
    /\ ~ gc.done
    /\ gc' = [gc EXCEPT !.done = TRUE,
                        !.coefficient = indicators_coefficient(gc.poles, gc.j)]
    /\ UNCHANGED <<state, file, ret, lastAlert, run, asm>>

WeightRoot ==
    /\ gc.impl = "root"
    /\ ~ gc.done
    /\ gc' = [gc EXCEPT !.done = TRUE,
                        !.coefficient = coefficient(gc.poles, gc.j)]
    /\ UNCHANGED <<state, file, ret, lastAlert, run, asm>>

NextWeights ==
    \/ WeightIndicators
    \/ WeightRoot

SpecWeights == InitWeights /\ [][NextWeights]_vars

\* C24: for every pole count p in 1..9 and every k in 1..9, both filters
\* give the k-th previous output the weight C(p, k), p for k = 1 and 0 for
\* k > p, with the sign (-1)^(k+1).
C24_BinomialWeights ==
    gc.done =>
        /\ gc.coefficient =
              (IF gc.j % 2 = 1 THEN 1 ELSE -1) * Binomial(gc.poles, gc.j)
        /\ gc.j = 1 => gc.coefficient = gc.poles
        /\ gc.j > gc.poles => gc.coefficient = 0

\* C24, its case: with 8 poles the fourth previous output has the weight 70
\* and is subtracted, in src/gaussian_channel.py.
C24_Witness ==
    /\ gc.done
    /\ gc.impl = "root"
    /\ gc.poles = 8
    /\ gc.j = 4
    /\ gc.coefficient = -70

(***************************************************************************)
(* fetch_ohlcv_with_fallback (src/simple_exchange.py), one source after    *)
(* the other.  run holds:                                                  *)
(*   pc         "called", "trying" or "returned"                           *)
(*   timeframe  the timeframe asked for                                    *)
(*   results    what each source answers when it is queried                *)
(*   k          the index of the source to query next                      *)
(*   queried    the sources queried so far, in the order of the queries    *)
(*   data, source  the pair returned                                       *)
(***************************************************************************)
\* get_supported_timeframes
SupportedTimeframes == {"15m", "30m", "1h", "2h", "4h", "8h"}

\* The timeframes asked for: a supported one and one that is not.
FetchTimeframes == {"30m", "1d"}

\* What a source answers: None (also when the request raises), a dict with
\* no candle, with fewer than 150 candles, or with 150 and more.
SourceResults == {"none", "empty", "short", "full"}

\* has_candles without the length check.
has_candles_any(data) == data # "none"

\* data and len(data.get('timestamp', [])) > 0
has_candles(data) == data \notin {"none", "empty"}

InitFetch ==
    /\ state = EmptyState
    /\ file = MissingFile
    /\ ret = OpRet("__init__", "", "")
    /\ lastAlert = [s \in Symbols |-> NoKind]
    /\ gc = NoGC
    /\ asm = NoASM
    /\ \E timeframe \in FetchTimeframes,
          results \in [1..Len(Sources) -> SourceResults] :
           run = [pc |-> "called", timeframe |-> timeframe,
                  results |-> results, k |-> 1, queried |-> <<>>,
                  data |-> "none", source |-> "none"]

\* Lines 233-234: an unsupported timeframe returns (None, None) at once.
check_timeframe ==
    /\ run.pc = "called"
    /\ run' = [run EXCEPT !.pc = IF run.timeframe \in SupportedTimeframes
                                 THEN "trying" ELSE "returned"]
    /\ UNCHANGED <<state, file, ret, lastAlert, gc, asm>>

\* Lines 238-258: the next source is queried; its data is returned if it
\* has a candle, and (None, None) after the last source.
try_source ==
    /\ run.pc = "trying"
    /\ LET data == run.results[run.k]
           queried == Append(run.queried, Sources[run.k])
       IN  run' = IF has_candles(data)
                  THEN [run EXCEPT !.pc = "returned", !.queried = queried,
                                   !.data = data, !.source = Sources[run.k]]
                  ELSE IF run.k = Len(Sources)
                  THEN [run EXCEPT !.pc = "returned", !.queried = queried]
                  ELSE [run EXCEPT !.k = @ + 1, !.queried = queried]
    /\ UNCHANGED <<state, file, ret, lastAlert, gc, asm>>

NextFetch ==
    \/ check_timeframe
    \/ try_source

SpecFetch == InitFetch /\ [][NextFetch]_vars

\* C25: the sources are queried in the order BingX Perpetuals, BingX Spot,
\* KuCoin, OKX; the call returns the data of the first source that has a
\* candle, with that source's name, and queries no source after it; it
\* returns (None, None) only when the timeframe is unsupported or when all
\* four sources were queried and none had a candle.
C25_FirstSourceWithData ==
    /\ Len(run.queried) <= 4
    /\ \A i \in 1..Len(run.queried) :
           run.queried[i] = <<"BingX Perpetuals", "BingX Spot", "KuCoin", "OKX">>[i]
    /\ run.pc = "returned" =>
          LET n == Len(run.queried)
          IN  IF run.source # "none"
              THEN /\ n >= 1
                   /\ run.source = run.queried[n]
                   /\ run.data = run.results[n]
                   /\ run.data \in {"short", "full"}
                   /\ \A i \in 1..(n - 1) : run.results[i] \in {"none", "empty"}
              ELSE /\ run.data = "none"
                   /\ \/ run.timeframe \notin SupportedTimeframes /\ n = 0
                      \/ /\ n = 4
                         /\ \A i \in 1..4 : run.results[i] \in {"none", "empty"}

\* C25, its case: BingX Perpetuals answers with no candle, BingX Spot with
\* nothing, KuCoin with candles: KuCoin's data is returned and OKX, which
\* has candles too, is not queried.
C25_Witness ==
    /\ run.pc = "returned"
    /\ run.results = <<"empty", "none", "short", "full">>
    /\ run.queried = <<"BingX Perpetuals", "BingX Spot", "KuCoin">>
    /\ run.source = "KuCoin"
    /\ run.data = "short"

(***************************************************************************)
(* The claims about the alerts and the alert count of the detector, under  *)
(* Spec.                                                                   *)
(***************************************************************************)
\* C26: a detect_30m_cross call returns an alert exactly when the symbol's
\* stored last_position is known (not 'unknown') and differs from the
\* classification of the call; so also for a change from above_upper to
\* below_lower or back.
C26_AlertIffPositionChanged ==
    (ret.op = "detect_30m_cross" /\ ret.raised = "") =>
        (ret.alert # NoAlert
            <=> /\ KnownPosition(ret.pre) # "unknown"
                /\ KnownPosition(ret.pre) # ret.position)

(***************************************************************************)
(* One detector, two symbols, and a count of the alerts returned.  run     *)
(* holds fired: per symbol, the number of detector calls that returned an  *)
(* alert since the symbol's record was created.  State writes succeed; the *)
(* record of a symbol goes away with reset_coin_state, or when the state   *)
(* file is deleted and the next detector loads nothing.                    *)
(***************************************************************************)
\* fired after a detector call: a call that found no record starts at 0.
fired_after(fired) ==
    LET base == IF ret'.pre = NoRecord THEN 0 ELSE fired[ret'.symbol]
    IN  [fired EXCEPT ![ret'.symbol] =
            IF ret'.alert # NoAlert THEN base + 1 ELSE base]

InitCount ==
    /\ state = EmptyState
    /\ file = MissingFile
    /\ ret = OpRet("__init__", "", "")
    /\ lastAlert = [s \in Symbols |-> NoKind]
    /\ gc = NoGC
    /\ asm = NoASM
    /\ run = [pc |-> "count", fired |-> [s \in Symbols |-> 0]]

CountCall30m ==
    \E symbol \in Symbols, c \in RunCandles :
        /\ detect_30m_cross(symbol, c.open, c.close, c.high, c.low,
                            Fin(1), Fin(1), 1, "ok")
        /\ run' = [run EXCEPT !.fired = fired_after(@)]
        /\ UNCHANGED asm

CountCall4h ==
    \E symbol \in Symbols, c \in RunCandles :
        /\ detect_4h_cross(symbol, c.open, c.close, c.high, c.low, Fin(2),
                           Fin(1), Fin(1), 1, "ok")
        /\ run' = [run EXCEPT !.fired = fired_after(@)]
        /\ UNCHANGED asm

CountReset ==
    \E symbol \in Symbols :
        /\ reset_coin_state(symbol, "ok")
        /\ run' = [run EXCEPT !.fired[symbol] = 0]
        /\ UNCHANGED asm

CountNewDetector ==
    /\ new_detector
    /\ UNCHANGED <<run, asm>>

CountDeleteStateFile ==
    /\ file.status # "missing"
    /\ file' = MissingFile
    /\ ret' = OpRet("delete", "", "")
    /\ UNCHANGED <<state, lastAlert, gc, run, asm>>

NextCount ==
    \/ CountCall30m
    \/ CountCall4h
    \/ CountReset
    \/ CountNewDetector
    \/ CountDeleteStateFile

SpecCount == InitCount /\ [][NextCount]_vars

startswith(k, symbol) ==
    Len(k) >= Len(symbol) /\ SubSeq(k, 1, Len(symbol)) = symbol

\* {k: v for k, v in self.state.items() if k.startswith(symbol)}
history_of(st, symbol) ==
    [k \in {key \in DOMAIN st : startswith(key, symbol)} |-> st[k]]

\* Lines 106-108.
get_alert_history(symbol) ==
    asm' = ASMCall(asm.state, asm.file, asm.records, "get_alert_history",
                   symbol, "", None, None, FALSE, NoEntry,
                   history_of(asm.state, symbol))

\* Lines 110-115.
clear_symbol_state(symbol, io) ==
    LET keys_to_remove == {k \in DOMAIN asm.state : startswith(k, symbol)}
        st == [k \in DOMAIN asm.state \ keys_to_remove |-> asm.state[k]]
    IN  asm' = ASMCall(st, alert_save_state(asm.file, st, io), asm.records,
                       "clear_symbol_state", symbol, "", None, None, FALSE,
                       NoEntry, FALSE)

\* The symbols of the alerts: one is the beginning of another.
AlertSymbols == {"BTC", "BTCDOM", "ETH"}

InitClear ==
    /\ state = EmptyState
    /\ file = MissingFile
    /\ ret = OpRet("__init__", "", "")
    /\ lastAlert = [s \in Symbols |-> NoKind]
    /\ gc = NoGC
    /\ run = NoRun
    /\ asm = ASMCall(EmptyAlertState,
                     [status |-> "missing", data |-> EmptyAlertState], 0,
                     "__init__", "", "", None, None, FALSE, NoEntry, FALSE)

ClearRecordAlert ==
    /\ asm.records < MaxRecords
    /\ \E symbol \in AlertSymbols, cross_type \in {"upper_band", "lower_band"},
          io \in {"ok", "fail"} :
           record_alert(symbol, cross_type, Fin(2), Fin(1), io)
    /\ UNCHANGED <<state, file, ret, lastAlert, gc, run>>

GetAlertHistory ==
    /\ \E symbol \in AlertSymbols : get_alert_history(symbol)
    /\ UNCHANGED <<state, file, ret, lastAlert, gc, run>>

ClearSymbolState ==
    /\ \E symbol \in AlertSymbols, io \in {"ok", "fail"} :
           clear_symbol_state(symbol, io)
    /\ UNCHANGED <<state, file, ret, lastAlert, gc, run>>

NextClear ==
    \/ ClearRecordAlert
    \/ GetAlertHistory
    \/ ClearSymbolState
    \/ AlertStateManager__init__

SpecClear == InitClear /\ [][NextClear]_vars

\* The keys record_alert makes for a symbol.
KeysOf(symbol) == {KeyOf(symbol, cross_type) : cross_type \in CrossTypes}

\* C28: clear_symbol_state(s) removes the entries recorded for s and no
\* other, and get_alert_history(s) returns the entries recorded for s and
\* no other, also when another symbol's name begins with s.
C28_ExactlyTheSymbolsEntries ==
    [][/\ asm'.op = "clear_symbol_state" =>
              asm'.state = [k \in DOMAIN asm.state \ KeysOf(asm'.symbol) |->
                               asm.state[k]]
       /\ asm'.op = "get_alert_history" =>
              asm'.result = [k \in DOMAIN asm.state \cap KeysOf(asm'.symbol) |->
                                asm.state[k]]]_vars

(***************************************************************************)
(* The claim about alerts that stay suppressed, under SpecASM.             *)
(***************************************************************************)
\* C29: for every entry the manager holds for one of the cross types
\* upper_band, lower_band and filter_line, whatever price and band_value
\* were recorded, there is a query (current_price, band_value) for which
\* should_send_alert returns True.
C29_SomeQuerySends ==
    \A key \in DOMAIN asm.state :
        asm.state[key].cross_type \in {"upper_band", "lower_band", "filter_line"} =>
            \E current_price \in AlertPrices, band_value \in AlertBands :
                has_reset(asm.state[key].cross_type, current_price, band_value,
                          asm.state[key].price, asm.state[key].band_value)

(***************************************************************************)
(* run_analysis (src/analysis.py).  run holds:                             *)
(*   pc         "loop", "send" or "done"                                   *)
(*   i          the index of the next coin of coins.txt                    *)
(*   over       time.time() - start_time > 900 held when the last symbol   *)
(*              was done (the clock does not go back)                      *)
(*   signals    the list signals                                           *)
(*   processed  history: the symbols whose data was asked for              *)
(*   outcome    history: how the last symbol ended                         *)
(***************************************************************************)
\* coins.txt
AnalysisCoins == <<"BTC", "ETH", "SOL">>

\* How a symbol ends: no or too little data (line 38), no row of signals
\* (line 49), neither a BUY nor a SELL (line 58), a signal the cache holds
\* back (line 60), a signal that is appended.
Outcomes == {"no_data", "empty", "no_signal", "duplicate", "BUY", "SELL"}

InitBudget ==
    /\ state = EmptyState
    /\ file = MissingFile
    /\ ret = OpRet("__init__", "", "")
    /\ lastAlert = [s \in Symbols |-> NoKind]
    /\ gc = NoGC
    /\ asm = NoASM
    /\ run = [pc |-> "loop", i |-> 1, over |-> FALSE, signals |-> <<>>,
              processed |-> <<>>, outcome |-> "none"]

\* One turn of the loop, lines 36-69; over: whether the budget is used up
\* when the turn ends.
process_symbol(symbol, outcome, over) ==
    LET next_pc == IF run.i = Len(AnalysisCoins) THEN "send" ELSE "loop"
        done == [run EXCEPT !.i = @ + 1, !.over = over, !.outcome = outcome,
                            !.processed = Append(@, symbol)]
    IN  IF outcome \in {"no_data", "empty", "no_signal"}
        THEN \* continue
             run' = [done EXCEPT !.pc = next_pc]
        ELSE run' = [done EXCEPT
                        !.signals = IF outcome = "duplicate" THEN @
                                    ELSE Append(@, [symbol |-> symbol,
                                                    signal_type |-> outcome]),
                        !.pc = IF over THEN "send" ELSE next_pc]

ProcessSymbol ==
    /\ run.pc = "loop"
    /\ \E outcome \in Outcomes, over \in BOOLEAN :
           /\ run.over => over
           /\ process_symbol(AnalysisCoins[run.i], outcome, over)
    /\ UNCHANGED <<state, file, ret, lastAlert, gc, asm>>

\* Lines 70-71.
send_telegram_alerts ==
    /\ run.pc = "send"
    /\ run' = [run EXCEPT !.pc = "done"]
    /\ UNCHANGED <<state, file, ret, lastAlert, gc, asm>>

NextBudget ==
    \/ ProcessSymbol
    \/ send_telegram_alerts

SpecBudget == InitBudget /\ [][NextBudget]_vars

\* C30: once the elapsed time is over the budget when a symbol is done,
\* however the symbol ended, no later symbol of the list is processed.
C30_NoSymbolAfterBudget ==
    [][run.over => run'.processed = run.processed]_vars

====
